---- MODULE Spec2Model ----
(***************************************************************************)
(* Model of one run of the two video splitters of this repository:         *)
(*   Yt_Split_Portrait.py   (the aspect variant)                            *)
(*   Yt_Split_FullScreen.py (the text-overlay variant)                      *)
(*                                                                         *)
(* Times are fixed-point numbers in ticks of 0.05 s (20 ticks = 1.0), so   *)
(* that the 0.1 s threshold and the 60 s window are both integers.  A time *)
(* string is modelled by the list of its colon-separated fields; a field   *)
(* is either a number or something float() rejects.                        *)
(***************************************************************************)
EXTENDS Integers, Sequences, FiniteSets, TLC

\* ------------------------------------------------------------------ bounds
MaxSplitTimes == 2      \* longest --split-times list
MaxWindows == 2         \* longest video, in whole 60 s windows

\* --------------------------------------------------------------- fixed point
Sec(n) == n * 20

SegmentWindow == Sec(60)          \* the literal 60 of the fixed mode
MinSegment == Sec(1) \div 10      \* the literal 0.1 of the custom mode

\* ------------------------------------------------------------ option values
None == [some |-> FALSE, v |-> 0]
Some(x) == [some |-> TRUE, v |-> x]
NoTimes == [some |-> FALSE, v |-> <<>>]
NoneStr == "<None>"

Num(x) == [num |-> TRUE, v |-> x]
Bad == [num |-> FALSE, v |-> 0]

\* ------------------------------------------------------------------ inputs
\* "30", "30.05", "30.1", "1:30", "0:0:30", "-5", "200", "abc", "1:x", "1:2:3:4"
TimeStrs ==
  { <<Num(Sec(30))>>, <<Num(Sec(30) + 1)>>, <<Num(Sec(30) + 2)>>,
    <<Num(Sec(1)), Num(Sec(30))>>, <<Num(0), Num(0), Num(Sec(30))>>,
    <<Num(0 - Sec(5))>>, <<Num(Sec(200))>>,
    <<Bad>>, <<Num(Sec(1)), Bad>>,
    <<Num(Sec(1)), Num(Sec(2)), Num(Sec(3)), Num(Sec(4))>> }

TimeLists == UNION { [1..n -> TimeStrs] : n \in 1..MaxSplitTimes }

\* durations of the input file: 0, 0.05, 0.1, 0.15, 45 and k*60 + {0, 5, 40}
Durations ==
  {0, 1, 2, 3, Sec(45)} \cup
  { k * SegmentWindow + r : k \in 1..MaxWindows, r \in {0, Sec(5), Sec(40)} }

PortraitArgs ==
  [ split_option : {"60", "custom"},
    split_times : {NoTimes} \cup { Some(l) : l \in TimeLists },
    aspect : {"portrait", "landscape", "original"},
    aspect_mode : {"portrait"}, aspect_handling : {"pad"},
    background : {"black"}, text : {NoneStr}, text_size : {48},
    text_color : {NoneStr}, font : {NoneStr} ]

FullScreenArgs ==
  [ split_option : {"60", "custom"},
    split_times : {NoTimes, Some(<< <<Num(Sec(30))>> >>), Some(<< <<Bad>> >>)},
    aspect : {"original"},
    aspect_mode : {"portrait", "landscape"},
    aspect_handling : {"pad", "crop", "stretch", "original"},
    background : {"black", "white"}, text : {NoneStr, "", "Hi"},
    text_size : {48}, text_color : {NoneStr, "red"},
    font : {NoneStr, "f.ttf"} ]

VARIABLES variant, args, video, pc, probed, duration, split_points, idx,
          segments, segment_count, i, cmds, printed

vars == <<variant, args, video, pc, probed, duration, split_points, idx,
          segments, segment_count, i, cmds, printed>>

\* ------------------------------------------------------------ pure helpers
Min(a, b) == IF a <= b THEN a ELSE b

Insert(x, s) ==
  LET k == Cardinality({j \in 1..Len(s) : s[j] < x})
  IN SubSeq(s, 1, k) \o <<x>> \o SubSeq(s, k + 1, Len(s))

RECURSIVE sorted(_)
sorted(s) == IF s = <<>> THEN <<>> ELSE Insert(Head(s), sorted(Tail(s)))

RECURSIVE SelectIn(_, _, _)
SelectIn(s, lo, hi) ==
  IF s = <<>> THEN <<>>
  ELSE (IF lo < Head(s) /\ Head(s) < hi THEN <<Head(s)>> ELSE <<>>)
       \o SelectIn(Tail(s), lo, hi)

\* ---------------------------------------------------------------- parse_time
parse_time_swapped(time_str) ==
  IF Len(time_str) > 1
  THEN IF \E j \in 1..Len(time_str) : ~time_str[j].num THEN None
       ELSE IF Len(time_str) = 3
            THEN Some(time_str[1].v * 3600 + time_str[2].v * 60 + time_str[3].v)
       ELSE IF Len(time_str) = 2
            THEN Some(time_str[1].v * 3600 + time_str[2].v)
       ELSE None
  ELSE IF time_str[1].num THEN Some(time_str[1].v) ELSE None

parse_time(time_str) ==
  IF Len(time_str) > 1
  THEN IF \E j \in 1..Len(time_str) : ~time_str[j].num THEN None
       ELSE IF Len(time_str) = 3
            THEN Some(time_str[1].v * 3600 + time_str[2].v * 60 + time_str[3].v)
       ELSE IF Len(time_str) = 2
            THEN Some(time_str[1].v * 60 + time_str[2].v)
       ELSE None
  ELSE IF time_str[1].num THEN Some(time_str[1].v) ELSE None

\* ------------------------------------------------------------ filter graphs
Stage(op, w, h, opt) ==
  [op |-> op, w |-> w, h |-> h, opt |-> opt,
   text |-> "", font |-> "", fontcolor |-> "", fontsize |-> 0]

DrawText(text, font, fontcolor, fontsize) ==
  [op |-> "drawtext", w |-> 0, h |-> 0, opt |-> "x=(w-text_w)/2:y=(h-text_h)/2",
   text |-> text, font |-> font, fontcolor |-> fontcolor, fontsize |-> fontsize]

NoGraph == [none |-> TRUE, stages |-> <<>>]
Graph(stages) == [none |-> FALSE, stages |-> stages]
Truthy(g) == ~g.none /\ g.stages # <<>>

build_aspect_filter(aspect) ==
  IF aspect = "portrait"
  THEN Graph(<<Stage("scale", 1080, 1920, "decrease"),
               Stage("pad", 1080, 1920, "black")>>)
  ELSE IF aspect = "landscape"
  THEN Graph(<<Stage("scale", 1920, 1080, "decrease"),
               Stage("pad", 1920, 1080, "black")>>)
  ELSE NoGraph

TextStage(a) ==
  IF a.text # NoneStr /\ a.text # ""
  THEN <<DrawText(a.text,
                  IF a.font # NoneStr /\ a.font # "" THEN a.font ELSE "",
                  IF a.text_color # NoneStr /\ a.text_color # ""
                  THEN a.text_color
                  ELSE IF a.background = "black" THEN "white" ELSE "black",
                  a.text_size)>>
  ELSE <<>>

AspectStages(a, target_width, target_height) ==
  IF a.aspect_handling = "crop"
  THEN <<Stage("scale", target_width, target_height, "increase"),
         Stage("crop", target_width, target_height, "")>>
  ELSE IF a.aspect_handling = "pad"
  THEN <<Stage("scale", target_width, target_height, "decrease"),
         Stage("pad", target_width, target_height,
               IF a.background # "" THEN a.background ELSE "black")>>
  ELSE <<Stage("scale", target_width, target_height, "")>>

build_filters_text_first(a) ==
  LET target_width == IF a.aspect_mode = "portrait" THEN 1080 ELSE 1920
      target_height == IF a.aspect_mode = "portrait" THEN 1920 ELSE 1080
  IN IF a.aspect_handling \notin {"crop", "pad", "stretch"} THEN NoGraph
     ELSE Graph(TextStage(a) \o AspectStages(a, target_width, target_height))

build_filters(a) ==
  LET target_width == IF a.aspect_mode = "portrait" THEN 1080 ELSE 1920
      target_height == IF a.aspect_mode = "portrait" THEN 1920 ELSE 1080
  IN IF a.aspect_handling \notin {"crop", "pad", "stretch"} THEN NoGraph
     ELSE Graph(AspectStages(a, target_width, target_height) \o TextStage(a))

\* ------------------------------------------------------- encoder command lines
Cmd(f, ss, vf, cv, vbv, ca, ba, t, out) ==
  [f |-> f, ss |-> ss, vf |-> vf, cv |-> cv, vbv |-> vbv, ca |-> ca,
   ba |-> ba, t |-> t, out |-> out, ok |-> TRUE]

fixed_output(n) == [fmt |-> "_%03d", idx |-> n]

custom_output_zero_based(n) == [fmt |-> "_part", idx |-> n - 1]

custom_output(n) == [fmt |-> "_part", idx |-> n]

split_video_segment_copy_audio(out, start, dur, aspect) ==
  LET filter_str == build_aspect_filter(aspect)
  IN IF Truthy(filter_str)
     THEN Cmd("", start, filter_str.stages, "libx264", TRUE, "aac", "128k", dur, out)
     ELSE Cmd("", start, <<>>, "copy", FALSE, "copy", "", dur, out)

split_video_segment(out, start, dur, aspect) ==
  LET filter_str == build_aspect_filter(aspect)
  IN IF Truthy(filter_str)
     THEN Cmd("", start, filter_str.stages, "libx264", TRUE, "aac", "128k", dur, out)
     ELSE Cmd("", start, <<>>, "copy", FALSE, "aac", "128k", dur, out)

process_segment(out, start, dur, a) ==
  LET filters == build_filters(a)
  IN IF Truthy(filters)
     THEN Cmd("", start, filters.stages, "libx264", FALSE, "aac", "128k", dur, out)
     ELSE Cmd("", start, <<>>, "copy", FALSE, "aac", "128k", dur, out)

\* the single "-f segment -segment_time 60 -c copy" command of the fast split
fast_split_cmd ==
  Cmd("segment", None, <<>>, "copy", FALSE, "copy", "", None,
      [fmt |-> "_%03d", idx |-> 0])

\* ------------------------------------------------------------- the planners
segment_count_plus_one(d) == d \div SegmentWindow + 1

segment_count_of(d) ==
  d \div SegmentWindow + (IF d % SegmentWindow > 0 THEN 1 ELSE 0)

keep_segment_at_threshold(start, end) == end - start >= MinSegment

keep_segment(start, end) == end - start > MinSegment

cut_points(points, d) == sorted(<<0>> \o SelectIn(points, 0, d) \o <<d>>)

RECURSIVE plan_from(_, _)
plan_from(sp, j) ==
  IF j > Len(sp) - 1 THEN <<>>
  ELSE (IF keep_segment(sp[j], sp[j + 1])
        THEN << <<sp[j], sp[j + 1] - sp[j]>> >> ELSE <<>>)
       \o plan_from(sp, j + 1)

plan_segments(sp) == plan_from(sp, 1)

\* ---------------------------------------------------------------------- Init
Init ==
  /\ variant \in {"Portrait", "FullScreen"}
  /\ args \in (IF variant = "Portrait" THEN PortraitArgs ELSE FullScreenArgs)
  /\ video \in Durations
  /\ pc = "start"
  /\ probed = FALSE
  /\ duration = None
  /\ split_points = <<>>
  /\ idx = 0
  /\ segments = <<>>
  /\ segment_count = 0
  /\ i = 0
  /\ cmds = <<>>
  /\ printed = {}

Run(c, ok) == cmds' = Append(cmds, [c EXCEPT !.ok = ok])

\* ------------------------------------------------- Yt_Split_Portrait.py main
P_Validate ==
  /\ variant = "Portrait" /\ pc = "start"
  /\ \E env \in {"ok", "no_ffmpeg", "no_input"} :
       IF env = "no_ffmpeg"
       THEN pc' = "done" /\ printed' = printed \cup {"FFmpeg not found"}
       ELSE IF env = "no_input"
       THEN pc' = "done" /\ printed' = printed \cup {"Input file not found"}
       ELSE IF args.split_option = "60"
       THEN /\ pc' = IF args.aspect = "original" THEN "p_fast" ELSE "p_probe60"
            /\ printed' = printed \cup {"Processing 60-second segments..."}
       ELSE IF ~args.split_times.some \/ args.split_times.v = <<>>
       THEN pc' = "done" /\ printed' = printed \cup {"Custom split requires --split-times"}
       ELSE pc' = "p_parse" /\ printed' = printed
  /\ idx' = 1
  /\ UNCHANGED <<variant, args, video, probed, duration, split_points,
                 segments, segment_count, i, cmds>>

P_FastSplit ==
  /\ variant = "Portrait" /\ pc = "p_fast"
  /\ \E ok \in BOOLEAN :
       /\ Run(fast_split_cmd, ok)
       /\ printed' = printed \cup
            {IF ok THEN "60-second segments created successfully"
                   ELSE "Segment split failed"}
  /\ pc' = "done"
  /\ UNCHANGED <<variant, args, video, probed, duration, split_points, idx,
                 segments, segment_count, i>>

P_Probe60 ==
  /\ variant = "Portrait" /\ pc = "p_probe60"
  /\ \E r \in {None, Some(video)} :
       /\ duration' = r
       /\ printed' = IF r.some THEN printed
                     ELSE printed \cup {"Error getting duration"}
       /\ IF ~r.some \/ r.v = 0
          THEN pc' = "done" /\ UNCHANGED segment_count
          ELSE pc' = "p_loop60" /\ segment_count' = segment_count_of(r.v)
  /\ probed' = TRUE
  /\ i' = 0
  /\ UNCHANGED <<variant, args, video, split_points, idx, segments, cmds>>

P_Loop60 ==
  /\ variant = "Portrait" /\ pc = "p_loop60" /\ i < segment_count
  /\ \E success \in BOOLEAN :
       /\ Run(split_video_segment(fixed_output(i + 1), Some(i * SegmentWindow),
                                  Some(SegmentWindow), args.aspect), success)
       /\ IF success
          THEN pc' = pc /\ i' = i + 1 /\ printed' = printed
          ELSE pc' = "done" /\ i' = i /\ printed' = printed \cup {"FFmpeg error"}
  /\ UNCHANGED <<variant, args, video, probed, duration, split_points, idx,
                 segments, segment_count>>

P_Done60 ==
  /\ variant = "Portrait" /\ pc = "p_loop60" /\ i >= segment_count
  /\ pc' = "done"
  /\ printed' = printed \cup {"Created 60-second segments"}
  /\ UNCHANGED <<variant, args, video, probed, duration, split_points, idx,
                 segments, segment_count, i, cmds>>

P_ParseTime_keep_going ==
  /\ variant = "Portrait" /\ pc = "p_parse" /\ idx <= Len(args.split_times.v)
  /\ LET parsed == parse_time(args.split_times.v[idx])
     IN IF ~parsed.some
        THEN /\ printed' = printed \cup {"Invalid time format"}
             /\ UNCHANGED split_points
        ELSE /\ split_points' = Append(split_points, parsed.v)
             /\ printed' = printed
  /\ idx' = idx + 1
  /\ pc' = IF idx = Len(args.split_times.v) THEN "p_probeC" ELSE pc
  /\ UNCHANGED <<variant, args, video, probed, duration, segments,
                 segment_count, i, cmds>>

P_ParseTime ==
  /\ variant = "Portrait" /\ pc = "p_parse" /\ idx <= Len(args.split_times.v)
  /\ LET parsed == parse_time(args.split_times.v[idx])
     IN IF ~parsed.some
        THEN /\ pc' = "done"
             /\ printed' = printed \cup {"Invalid time format"}
             /\ UNCHANGED <<split_points, idx>>
        ELSE /\ split_points' = Append(split_points, parsed.v)
             /\ idx' = idx + 1
             /\ pc' = IF idx = Len(args.split_times.v) THEN "p_probeC" ELSE pc
             /\ printed' = printed
  /\ UNCHANGED <<variant, args, video, probed, duration, segments,
                 segment_count, i, cmds>>

P_ProbeCustom ==
  /\ variant = "Portrait" /\ pc = "p_probeC"
  /\ \E r \in {None, Some(video)} :
       /\ duration' = r
       /\ IF ~r.some
          THEN /\ pc' = "done"
               /\ printed' = printed \cup {"Error getting duration"}
               /\ UNCHANGED <<split_points, segments>>
          ELSE IF r.v = 0
          THEN /\ pc' = "done"
               /\ printed' = printed
               /\ UNCHANGED <<split_points, segments>>
          ELSE /\ split_points' = cut_points(split_points, r.v)
               /\ segments' = plan_segments(split_points')
               /\ IF segments' = <<>>
                  THEN pc' = "done" /\ printed' = printed \cup {"No valid segments created"}
                  ELSE pc' = "p_loopC" /\ printed' = printed \cup {"Creating custom segments..."}
  /\ probed' = TRUE
  /\ idx' = 1
  /\ UNCHANGED <<variant, args, video, segment_count, i, cmds>>

P_LoopCustom ==
  /\ variant = "Portrait" /\ pc = "p_loopC" /\ idx <= Len(segments)
  /\ \E success \in BOOLEAN :
       /\ Run(split_video_segment(custom_output(idx), Some(segments[idx][1]),
                                  Some(segments[idx][2]), args.aspect), success)
       /\ IF success
          THEN pc' = pc /\ idx' = idx + 1 /\ printed' = printed
          ELSE pc' = "done" /\ idx' = idx /\ printed' = printed \cup {"FFmpeg error"}
  /\ UNCHANGED <<variant, args, video, probed, duration, split_points,
                 segments, segment_count, i>>

P_AllDone ==
  /\ variant = "Portrait" /\ pc = "p_loopC" /\ idx > Len(segments)
  /\ pc' = "done"
  /\ printed' = printed \cup {"All segments created successfully"}
  /\ UNCHANGED <<variant, args, video, probed, duration, split_points, idx,
                 segments, segment_count, i, cmds>>

\* ----------------------------------------------- Yt_Split_FullScreen.py main
F_Validate ==
  /\ variant = "FullScreen" /\ pc = "start"
  /\ \E env \in {"ok", "no_ffmpeg", "no_input"} :
       IF env = "no_ffmpeg"
       THEN pc' = "done" /\ printed' = printed \cup {"FFmpeg binaries not found"}
       ELSE IF env = "no_input"
       THEN pc' = "done" /\ printed' = printed \cup {"Input file not found"}
       ELSE IF args.split_option = "60"
       THEN /\ pc' = "f_probe60"
            /\ printed' = printed \cup {"Output directory", "Processing 60-second segments..."}
       ELSE pc' = "f_custom" /\ printed' = printed \cup {"Output directory"}
  /\ UNCHANGED <<variant, args, video, probed, duration, split_points, idx,
                 segments, segment_count, i, cmds>>

F_Probe60 ==
  /\ variant = "FullScreen" /\ pc = "f_probe60"
  /\ \E r \in {None, Some(video)} :
       /\ duration' = r
       /\ IF ~r.some
          THEN /\ pc' = "done"
               /\ printed' = printed \cup {"Error getting duration"}
               /\ UNCHANGED segment_count
          ELSE /\ pc' = "f_loop60"
               /\ printed' = printed
               /\ segment_count' = segment_count_of(r.v)
  /\ probed' = TRUE
  /\ i' = 0
  /\ UNCHANGED <<variant, args, video, split_points, idx, segments, cmds>>

F_Loop60 ==
  /\ variant = "FullScreen" /\ pc = "f_loop60" /\ i < segment_count
  /\ LET start == i * SegmentWindow
         seg_duration == Min(SegmentWindow, duration.v - start)
     IN \E ok \in BOOLEAN :
          /\ Run(process_segment(fixed_output(i + 1), Some(start),
                                 Some(seg_duration), args), ok)
          /\ printed' = IF ok THEN printed \cup {"Processing segment"}
                        ELSE printed \cup {"Processing segment", "Error processing segment"}
  /\ i' = i + 1
  /\ UNCHANGED <<variant, args, video, pc, probed, duration, split_points, idx,
                 segments, segment_count>>

F_Done60 ==
  /\ variant = "FullScreen" /\ pc = "f_loop60" /\ i >= segment_count
  /\ pc' = "done"
  /\ printed' = printed \cup {"Processing completed"}
  /\ UNCHANGED <<variant, args, video, probed, duration, split_points, idx,
                 segments, segment_count, i, cmds>>

\* the custom split of this variant is a comment only: main falls off its end
F_Custom ==
  /\ variant = "FullScreen" /\ pc = "f_custom"
  /\ pc' = "done"
  /\ UNCHANGED <<variant, args, video, probed, duration, split_points, idx,
                 segments, segment_count, i, cmds, printed>>

Next ==
  \/ P_Validate \/ P_FastSplit \/ P_Probe60 \/ P_Loop60 \/ P_Done60
  \/ P_ParseTime \/ P_ProbeCustom \/ P_LoopCustom \/ P_AllDone
  \/ F_Validate \/ F_Probe60 \/ F_Loop60 \/ F_Done60 \/ F_Custom

Spec == Init /\ [][Next]_vars

\* =================================================================== claims
W == SegmentWindow

Times == args.split_times.v

\* least n with n * 60 s >= d, for d >= 0
Ceil(d) == CHOOSE n \in 0..(d + 1) : n * W >= d /\ (n - 1) * W < d

\* a time string float()/parse_time must reject
BadStr(s) == Len(s) >= 4 \/ \E j \in 1..Len(s) : ~s[j].num

\* the seconds value of a well-formed time string of one, two or three fields
Seconds(s) ==
  IF Len(s) = 1 THEN s[1].v
  ELSE IF Len(s) = 2 THEN 60 * s[1].v + s[2].v
  ELSE 3600 * s[1].v + 60 * s[2].v + s[3].v

RECURSIVE SumT(_)
SumT(cs) == IF cs = <<>> THEN 0 ELSE Head(cs).t.v + SumT(Tail(cs))

AllOk == \A k \in 1..Len(cmds) : cmds[k].ok

InputErrors ==
  {"FFmpeg not found", "FFmpeg binaries not found", "Input file not found",
   "Custom split requires --split-times", "Invalid time format",
   "Error getting duration", "No valid segments created"}

OriginalAspect ==
  IF variant = "Portrait" THEN args.aspect = "original"
  ELSE args.aspect_handling = "original"

\* C1: fixed 60 s mode, for every probed duration D > 0 the planner plans
\* ceil(D/60) segments, the k-th encoder call (1-based) starts at (k-1)*60, a
\* duration that is a multiple of 60 plans exactly D/60 segments, and a run
\* that finishes without a failed encode has made one call per planned segment.
C1_FixedCount ==
  (args.split_option = "60" /\ duration.some /\ duration.v > 0) =>
     /\ segment_count = Ceil(duration.v)
     /\ (duration.v % W = 0 => segment_count * W = duration.v)
     /\ Len(cmds) <= segment_count
     /\ \A k \in 1..Len(cmds) : cmds[k].ss = Some((k - 1) * W)
     /\ (pc = "done" /\ AllOk => Len(cmds) = segment_count)

C1_Witness ==
  /\ pc = "done" /\ args.split_option = "60" /\ variant = "Portrait"
  /\ duration = Some(2 * W) /\ Len(cmds) = 2 /\ AllOk

\* C2: fixed 60 s mode, in both variants the length passed to the encoder for
\* the segment starting at s is min(60, D - s), and once every planned
\* segment has been run the lengths sum to D exactly.
C2_FixedLengths ==
  (args.split_option = "60" /\ duration.some) =>
     /\ \A k \in 1..Len(cmds) :
          cmds[k].t = Some(Min(W, duration.v - cmds[k].ss.v))
     /\ (pc = "done" /\ Len(cmds) = segment_count => SumT(cmds) = duration.v)

\* C3: every (start, length) pair handed to the job runner satisfies
\* start >= 0, length > 0 and start + length <= the probed duration.
C3_JobInvariant ==
  \A k \in 1..Len(cmds) :
     cmds[k].ss.some =>
        /\ cmds[k].t.some /\ duration.some
        /\ cmds[k].ss.v >= 0
        /\ cmds[k].t.v > 0
        /\ cmds[k].ss.v + cmds[k].t.v <= duration.v

\* C4: custom mode, once the planner has run on a duration D > 0: the cut
\* points are 0, every parsed value strictly between 0 and D (duplicates
\* kept) and D, in ascending order; there is exactly one segment for each
\* adjacent pair whose gap exceeds 0.1 s and none for any other pair; so each
\* segment is longer than 0.1 s, starts strictly increase, segments do not
\* overlap, and what is left uncovered of [0, D] is exactly the dropped gaps.
\* The encoder is called with the planned (start, length) pairs, in order.
C4_CustomPlan ==
  (variant = "Portrait" /\ args.split_option = "custom" /\ probed
     /\ duration.some /\ duration.v > 0) =>
   LET D == duration.v
       sp == split_points
       InRange == {j \in 1..Len(Times) : 0 < Seconds(Times[j]) /\ Seconds(Times[j]) < D}
       Kept == {j \in 1..(Len(sp) - 1) : sp[j + 1] - sp[j] > MinSegment}
       Dropped == (1..(Len(sp) - 1)) \ Kept
   IN /\ Len(sp) = Cardinality(InRange) + 2
      /\ sp[1] = 0 /\ sp[Len(sp)] = D
      /\ \A j \in 1..(Len(sp) - 1) : sp[j] <= sp[j + 1]
      /\ \A x \in {sp[j] : j \in 2..(Len(sp) - 1)} :
           Cardinality({j \in 2..(Len(sp) - 1) : sp[j] = x})
             = Cardinality({j \in InRange : Seconds(Times[j]) = x})
      /\ \A j \in InRange : \E m \in 2..(Len(sp) - 1) : sp[m] = Seconds(Times[j])
      /\ Len(segments) = Cardinality(Kept)
      /\ \A j \in Kept :
           Cardinality({k \in 1..Len(segments) :
                          segments[k] = <<sp[j], sp[j + 1] - sp[j]>>}) = 1
      /\ \A k \in 1..Len(segments) : segments[k][2] > MinSegment
      /\ \A k \in 1..(Len(segments) - 1) :
           /\ segments[k][1] < segments[k + 1][1]
           /\ segments[k][1] + segments[k][2] <= segments[k + 1][1]
      /\ \A j \in Dropped : \A k \in 1..Len(segments) :
           ~(segments[k][1] < sp[j + 1] /\ sp[j] < segments[k][1] + segments[k][2])
      /\ Len(cmds) <= Len(segments)
      /\ \A k \in 1..Len(cmds) :
           cmds[k].ss = Some(segments[k][1]) /\ cmds[k].t = Some(segments[k][2])

C4_Witness ==
  /\ variant = "Portrait" /\ pc = "done" /\ Len(split_points) = 4
  /\ split_points[3] - split_points[2] = MinSegment
  /\ Len(segments) = 2 /\ Len(cmds) = 2

\* C5: in every mode of both variants, once an encoder call has failed no
\* further encoder call is made in that run: only the last call of a run may
\* be a failed one.
C5_AbortOnFirstFailure ==
  \A k \in 1..(Len(cmds) - 1) : cmds[k].ok

ExpectedCalls ==
  IF args.split_option = "60" THEN Ceil(video)
  ELSE LET S == {0, video} \cup
                { Seconds(Times[j]) : j \in {m \in 1..Len(Times) :
                    0 < Seconds(Times[m]) /\ Seconds(Times[m]) < video} }
       IN Cardinality({x \in S : \E y \in S :
                         /\ y > x /\ y - x > MinSegment
                         /\ \A z \in S : ~(x < z /\ z < y)})

\* a finished run with no environment, parse, probe or encode failure
CleanRun ==
  /\ pc = "done"
  /\ printed \cap {"FFmpeg not found", "FFmpeg binaries not found",
                   "Input file not found"} = {}
  /\ ~(probed /\ ~duration.some)
  /\ args.split_option = "custom" =>
       /\ args.split_times.some
       /\ \A j \in 1..Len(Times) : ~BadStr(Times[j])
  /\ AllOk

OncePerSegment ==
  /\ Len(cmds) = ExpectedCalls
  /\ \A k \in 1..Len(cmds) : cmds[k].ss.some /\ cmds[k].out.idx = k
  /\ \A k \in 1..(Len(cmds) - 1) : cmds[k].ss.v < cmds[k + 1].ss.v

PlannedPath ==
  \/ variant = "FullScreen" /\ args.split_option = "60"
  \/ variant = "Portrait" /\ args.split_option = "60" /\ args.aspect # "original"
  \/ variant = "Portrait" /\ args.split_option = "custom"

VideoRule(c) ==
  /\ c.cv \in {"copy", "libx264"}
  /\ c.cv = "copy" <=> OriginalAspect
  /\ c.cv = "copy" <=> c.vf = <<>>

\* C8 as stated: every encoder call stream-copies the video iff no filter
\* graph was composed (original aspect), and always re-encodes the audio to
\* aac at 128k.
C8_Codecs_AllPaths ==
  \A k \in 1..Len(cmds) :
     VideoRule(cmds[k]) /\ cmds[k].ca = "aac" /\ cmds[k].ba = "128k"

\* C8 amended: the video rule holds for every encoder call; the audio is
\* re-encoded to aac at 128k in every call made for a segment job, while the
\* single call of the aspect variant's original-aspect fixed mode copies
\* every stream, audio included.
C8_Codecs ==
  \A k \in 1..Len(cmds) :
     /\ VideoRule(cmds[k])
     /\ cmds[k].f = "" => (cmds[k].ca = "aac" /\ cmds[k].ba = "128k")
     /\ cmds[k].f = "segment" =>
          /\ variant = "Portrait" /\ args.split_option = "60"
          /\ cmds[k].ca = "copy" /\ cmds[k].ba = ""

C8_Witness ==
  /\ variant = "Portrait" /\ args.split_option = "custom" /\ Len(cmds) = 2
  /\ cmds[2].cv = "copy" /\ cmds[2].ca = "aac" /\ cmds[2].ba = "128k"

\* C9: filter composer of the text-overlay variant: original handling gives
\* no graph, also with text; crop gives [scale(increase), crop], pad gives
\* [scale(decrease), pad(background)], stretch gives [scale]; every aspect
\* stage has the target size of the aspect mode; a configured text adds
\* exactly one drawtext stage, and it is the last one.  Every encoder call
\* carries exactly this graph.
C9_FilterStages ==
  variant = "FullScreen" =>
   LET g == build_filters(args)
       st == g.stages
       tw == IF args.aspect_mode = "portrait" THEN 1080 ELSE 1920
       th == IF args.aspect_mode = "portrait" THEN 1920 ELSE 1080
       n == IF args.aspect_handling = "stretch" THEN 1 ELSE 2
       hasText == args.text \notin {NoneStr, ""}
   IN /\ args.aspect_handling = "original" => (g.none /\ st = <<>>)
      /\ args.aspect_handling # "original" =>
           /\ ~g.none
           /\ Len(st) = n + (IF hasText THEN 1 ELSE 0)
           /\ \A m \in 1..n : st[m].w = tw /\ st[m].h = th
           /\ st[1].op = "scale"
           /\ args.aspect_handling = "crop" =>
                (st[1].opt = "increase" /\ st[2].op = "crop")
           /\ args.aspect_handling = "pad" =>
                (st[1].opt = "decrease" /\ st[2].op = "pad"
                   /\ st[2].opt = args.background)
           /\ args.aspect_handling = "stretch" => st[1].opt = ""
           /\ \A m \in 1..Len(st) : (st[m].op = "drawtext") <=> (hasText /\ m = n + 1)
           /\ hasText => st[Len(st)].text = args.text
      /\ \A k \in 1..Len(cmds) : cmds[k].vf = st

C9_Witness ==
  /\ variant = "FullScreen" /\ args.aspect_handling = "pad" /\ args.text = "Hi"
  /\ args.aspect_mode = "landscape" /\ args.background = "white"
  /\ Len(cmds) = 1 /\ Len(cmds[1].vf) = 3 /\ cmds[1].vf[3].op = "drawtext"

\* C10: time parser, as applied to the cut strings of a custom run: a string
\* that yields a value has one, two or three fields, all numeric, and the
\* value is a, 60*m + s or 3600*h + 60*m + s; a string reported as invalid has
\* four or more fields or a non-numeric field (so no well-formed string is
\* rejected and no malformed one yields a value).
C10_ParseTime ==
  (variant = "Portrait" /\ args.split_option = "custom" /\ args.split_times.some
     /\ (pc \in {"p_parse", "p_probeC"} \/ (pc = "done" /\ ~probed))) =>
     /\ Len(split_points) = idx - 1
     /\ \A j \in 1..Len(split_points) :
          /\ ~BadStr(Times[j])
          /\ split_points[j] = Seconds(Times[j])
     /\ "Invalid time format" \in printed =>
          (pc = "done" /\ idx <= Len(Times) /\ BadStr(Times[idx]))
     /\ pc = "done" => printed \cap InputErrors # {}

C10_Witness ==
  /\ variant = "Portrait" /\ pc = "p_probeC" /\ Len(split_points) = 2
  /\ Len(Times[1]) = 3 /\ Len(Times[2]) = 2
  /\ split_points = <<Sec(30), Sec(90)>>

====
